---- MODULE Spec2Model ----
(***************************************************************************)
(* A model of the sbon crate: the SBON primitive codec (src/src/lib.rs)    *)
(* and the SBAsset6 archive reader (src/src/formats/sbasset.rs).           *)
(*                                                                         *)
(* A byte is an integer in 0..255.  A u64 / i64 is a 64-bit word kept as   *)
(* four 16-bit limbs, the most significant first; an i64 is the same       *)
(* word read in two's complement.  A byte                                  *)
(* stream is a sequence of bytes and a position, the number of bytes       *)
(* consumed so far.                                                        *)
(***************************************************************************)
EXTENDS Integers, Sequences, FiniteSets, TLC

VARIABLES cphase, cin, cstream, cres,
          aphase, arch, inner, files, meta, log, last, iter, yielded, hadErr

cvars == <<cphase, cin, cstream, cres>>
avars == <<aphase, arch, inner, files, meta, log, last, iter, yielded, hadErr>>
vars == <<cphase, cin, cstream, cres,
          aphase, arch, inner, files, meta, log, last, iter, yielded, hadErr>>

----------------------------------------------------------------------------
(* Bounds of the model. *)

\* every u64 below SmallMax is a sample, as is every 2^64-1-n for n below it
SmallMax == 130
\* how many times a sample Dynamic is wrapped in a further List or Map
MaxDepth == 4
\* the longest run of continuation-flagged bytes fed to read_sb_vlqu
MaxCont == 12
\* the number of payload bytes of a sample archive
PayloadLen == 6
\* the length of an index entry that reaches past the end of the source
OobLen == 200
\* the most bytes cut from the end of a sample archive
MaxCut == 1
\* the most bytes that follow a declared string length
MaxBody == 3

----------------------------------------------------------------------------
(* 64-bit words: four 16-bit limbs, the most significant first.            *)

\* the width of u64 and i64
W == 64

Bits == 0 .. (W - 1)

\* 2^16, the size of a limb
Limb == 65536

Zero64 == <<0, 0, 0, 0>>

\* the bit k of the byte (or small natural) b
BitOf(b, k) == (b \div (2 ^ k)) % 2

\* n as u64, for a natural n below 2^30
FromNat(n) == <<0, 0, (n \div Limb), (n % Limb)>>

\* the limb j (1 the most significant) of 2^k
BitLimb(k, j) == IF 4 - (k \div 16) = j THEN 2 ^ (k % 16) ELSE 0

\* 2^k as u64
Bit(k) == <<BitLimb(k, 1), BitLimb(k, 2), BitLimb(k, 3), BitLimb(k, 4)>>

\* the limb j of 2^k - 1
OnesLimb(k, j) ==
    LET lo == 16 * (4 - j)
    IN  IF k >= lo + 16 THEN Limb - 1
        ELSE IF k <= lo THEN 0
        ELSE 2 ^ (k - lo) - 1

\* 2^k - 1 as u64, k in 0..64
Ones(k) == <<OnesLimb(k, 1), OnesLimb(k, 2), OnesLimb(k, 3), OnesLimb(k, 4)>>

\* v << k for k below 16, the bits shifted out are lost (Rust's << on u64, i64)
Shl(v, k) ==
    <<((v[1] * (2 ^ k)) % Limb) + (v[2] \div (2 ^ (16 - k))),
      ((v[2] * (2 ^ k)) % Limb) + (v[3] \div (2 ^ (16 - k))),
      ((v[3] * (2 ^ k)) % Limb) + (v[4] \div (2 ^ (16 - k))),
      (v[4] * (2 ^ k)) % Limb>>

\* v >> k on u64 (logical), for k below 16
Shr(v, k) ==
    <<v[1] \div (2 ^ k),
      (v[2] \div (2 ^ k)) + ((v[1] % (2 ^ k)) * (2 ^ (16 - k))),
      (v[3] \div (2 ^ k)) + ((v[2] % (2 ^ k)) * (2 ^ (16 - k))),
      (v[4] \div (2 ^ k)) + ((v[3] % (2 ^ k)) * (2 ^ (16 - k)))>>

\* x | y for bytes x and y
Or8(x, y) ==
    LET o(i) == IF BitOf(x, i) = 1 \/ BitOf(y, i) = 1 THEN 2 ^ i ELSE 0
    IN  o(0) + o(1) + o(2) + o(3) + o(4) + o(5) + o(6) + o(7)

\* v | b for a byte b
OrByte(v, b) == <<v[1], v[2], v[3], (v[4] - (v[4] % 256)) + Or8(v[4] % 256, b)>>

\* v & 0b1111111, as a byte
Low7(v) == v[4] % 128

\* v & 0b1
Low1(v) == v[4] % 2

Not64(v) == <<Limb - 1 - v[1], Limb - 1 - v[2], Limb - 1 - v[3], Limb - 1 - v[4]>>

\* v + 1 modulo 2^64: the carry runs through the limbs that are all ones
Inc64(v) ==
    IF v[4] # Limb - 1 THEN <<v[1], v[2], v[3], v[4] + 1>>
    ELSE IF v[3] # Limb - 1 THEN <<v[1], v[2], v[3] + 1, 0>>
    ELSE IF v[2] # Limb - 1 THEN <<v[1], v[2] + 1, 0, 0>>
    ELSE <<(v[1] + 1) % Limb, 0, 0, 0>>

\* v - 1 modulo 2^64: the borrow runs through the limbs that are zero
Dec64(v) ==
    IF v[4] # 0 THEN <<v[1], v[2], v[3], v[4] - 1>>
    ELSE IF v[3] # 0 THEN <<v[1], v[2], v[3] - 1, Limb - 1>>
    ELSE IF v[2] # 0 THEN <<v[1], v[2] - 1, Limb - 1, Limb - 1>>
    ELSE <<(v[1] + Limb - 1) % Limb, Limb - 1, Limb - 1, Limb - 1>>

\* -v modulo 2^64
Neg64(v) == Inc64(Not64(v))

\* the sign bit of an i64
IsNeg(v) == v[1] >= Limb \div 2

I64Min == Bit(W - 1)
I64Max == Ones(W - 1)

\* the number of significant bits of a limb
Len16(x) == IF x = 0 THEN 0 ELSE CHOOSE n \in 1 .. 16 : x \div (2 ^ (n - 1)) = 1

\* the number of significant bits of v (0 for v = 0)
BitLength(v) ==
    IF v[1] # 0 THEN 48 + Len16(v[1])
    ELSE IF v[2] # 0 THEN 32 + Len16(v[2])
    ELSE IF v[3] # 0 THEN 16 + Len16(v[3])
    ELSE Len16(v[4])

\* whether v is below 2^30, so that ToNat gives its value
Small(v) == v[1] = 0 /\ v[2] = 0 /\ v[3] < 2 ^ 14

\* the value of a Small v
ToNat(v) == (v[3] * Limb) + v[4]

----------------------------------------------------------------------------
(* Results: Ok(val) with the stream position after the call, or an error   *)
(* with the position the call left the stream at.                          *)

Ok(val, pos) == [ok |-> TRUE, val |-> val, pos |-> pos, err |-> "none", arg |-> 0]

Err(e, pos) == [ok |-> FALSE, val |-> 0, pos |-> pos, err |-> e, arg |-> 0]

\* byteorder's read_u8 on a stream s with pos bytes consumed
read_u8(s, pos) ==
    IF pos < Len(s) THEN Ok(s[pos + 1], pos + 1)
    ELSE Err("Io", Len(s))

\* std's read_exact of n bytes: all of them or an UnexpectedEof error
read_exact(s, pos, n) ==
    IF pos + n <= Len(s) THEN Ok(SubSeq(s, pos + 1, pos + n), pos + n)
    ELSE Err("Io", Len(s))

----------------------------------------------------------------------------
(* lib.rs: the unsigned and signed VLQ. *)

\* the most bytes read_sb_vlqu reads
MaxVlqBytes == 10

RECURSIVE vlqu_loop(_, _, _, _)
vlqu_loop(s, pos, val, i) ==
    IF i = MaxVlqBytes THEN Err("OversizedVLQ", pos)
    ELSE LET byte == read_u8(s, pos)
         IN  IF ~byte.ok THEN byte
             ELSE LET val2 == OrByte(Shl(val, 7), byte.val % 128)
                  IN  IF byte.val \div 128 = 0 THEN Ok(val2, byte.pos)
                      ELSE vlqu_loop(s, byte.pos, val2, i + 1)

RECURSIVE varint_loop(_, _, _)
varint_loop(s, pos, val) ==
    LET byte == read_u8(s, pos)
    IN  IF ~byte.ok THEN byte
        ELSE LET val2 == OrByte(Shl(val, 7), byte.val % 128)
             IN  IF byte.val \div 128 = 0 THEN Ok(val2, byte.pos)
                 ELSE varint_loop(s, byte.pos, val2)

\* read_sb_vlqu with the loop not bounded
read_sb_vlqu_unbounded(s, pos) == varint_loop(s, pos, Zero64)

read_sb_vlqu(s, pos) == vlqu_loop(s, pos, Zero64, 0)

\* -((val >> 1) as i64) - 1 when val is odd, (val >> 1) as i64 otherwise
read_sb_vlqi(s, pos) ==
    LET r == read_sb_vlqu(s, pos)
    IN  IF ~r.ok THEN r
        ELSE IF Low1(r.val) # 0
             THEN Ok(Dec64(Neg64(Shr(r.val, 1))), r.pos)
             ELSE Ok(Shr(r.val, 1), r.pos)

Reverse(q) == [i \in 1 .. Len(q) |-> q[Len(q) + 1 - i]]

\* the while loop of write_sb_vlqu
RECURSIVE vlqu_push(_, _)
vlqu_push(val, buf) ==
    IF val = Zero64 THEN buf
    ELSE vlqu_push(Shr(val, 7), Append(buf, Low7(val) + 128))

\* the while loop of write_sb_vlqu run a fixed ten times
RECURSIVE vlqu_push_fixed(_, _, _)
vlqu_push_fixed(val, buf, n) ==
    IF n = 0 THEN buf
    ELSE vlqu_push_fixed(Shr(val, 7), Append(buf, Low7(val) + 128), n - 1)

\* write_sb_vlqu always writing ten bytes
write_sb_vlqu_padded(val) == Reverse(vlqu_push_fixed(Shr(val, 7), <<Low7(val)>>, 9))

\* the bytes write_sb_vlqu writes
write_sb_vlqu(val) == Reverse(vlqu_push(Shr(val, 7), <<Low7(val)>>))

\* the i64 arithmetic of write_sb_vlqi: the u64 handed to write_sb_vlqu, and
\* whether a step overflowed (a panic of a debug build, a wrap of a release one)
vlqi_arg(val) ==
    IF IsNeg(val)
    THEN LET x1 == Inc64(val)
             ab == IF IsNeg(x1) THEN Neg64(x1) ELSE x1
         IN  [val |-> OrByte(Shl(ab, 1), 1),
              ovf |-> (val = I64Max) \/ (x1 = I64Min)]
    ELSE [val |-> Shl(val, 1), ovf |-> FALSE]

\* write_sb_vlqi taking x.abs() in place of (x + 1).abs()
write_sb_vlqi_abs(val) ==
    IF IsNeg(val) THEN write_sb_vlqu(OrByte(Shl(Neg64(val), 1), 1))
    ELSE write_sb_vlqu(Shl(val, 1))

write_sb_vlqi(val) == write_sb_vlqu(vlqi_arg(val).val)

----------------------------------------------------------------------------
(* lib.rs: bytes, strings, lists, maps and the Dynamic.                    *)
(*                                                                         *)
(* A Dynamic is a pair <<variant, payload>>.  The payload of a Double      *)
(* is its 64 IEEE-754 bits (f64::to_bits), of a String its UTF-8 bytes, of *)
(* a List a sequence, of a Map a function from keys (byte sequences) to    *)
(* Dynamics: two Maps are equal when they hold the same key/value pairs.   *)

Nil == <<"Nil", 0>>
Double(x) == <<"Double", x>>
Boolean(x) == <<"Boolean", x>>
VlqI(x) == <<"VlqI", x>>
String(x) == <<"String", x>>
List(x) == <<"List", x>>
Map(x) == <<"Map", x>>

\* the variant of a Dynamic, and its payload
Tag(d) == d[1]
Val(d) == d[2]

\* the 8 big-endian bytes of a 64-bit word (write_f64::<BigEndian>, write_u64)
U64ToBE(v) ==
    <<(v[1] \div 256), (v[1] % 256), (v[2] \div 256), (v[2] % 256),
      (v[3] \div 256), (v[3] % 256), (v[4] \div 256), (v[4] % 256)>>

\* the 64-bit word of 8 big-endian bytes (read_f64::<BigEndian>, read_u64)
BEToU64(b) ==
    <<(b[1] * 256) + b[2], (b[3] * 256) + b[4], (b[5] * 256) + b[6], (b[7] * 256) + b[8]>>

\* vec![0u8; n as usize] on a 64-bit host: a request above isize::MAX bytes
\* panics with "capacity overflow"
vec_panics(n) == n[1] >= Limb \div 2

\* read_exact into a buffer of n bytes, n a u64: a stream is shorter than 2^30
read_exact_u64(s, pos, n) ==
    IF Small(n) THEN read_exact(s, pos, ToNat(n)) ELSE Err("Io", Len(s))

\* whether b has a byte j and it lies in lo..hi
ByteIn(b, j, lo, hi) == j >= 1 /\ j <= Len(b) /\ b[j] >= lo /\ b[j] <= hi

\* the length of the sequence the lead byte x opens (0: x opens none)
utf8_width(x) ==
    IF x < 128 THEN 1
    ELSE IF x >= 194 /\ x <= 223 THEN 2
    ELSE IF x >= 224 /\ x <= 239 THEN 3
    ELSE IF x >= 240 /\ x <= 244 THEN 4
    ELSE 0

\* whether a well-formed sequence starts at byte i of b (the table of
\* core::str::from_utf8: the second byte's range depends on the lead)
utf8_seq_at(b, i) ==
    LET x == b[i]
        w == utf8_width(x)
    IN  /\ w # 0
        /\ w >= 2 =>
              \/ (x >= 194 /\ x <= 223 /\ ByteIn(b, i + 1, 128, 191))
              \/ (x = 224 /\ ByteIn(b, i + 1, 160, 191))
              \/ (x >= 225 /\ x <= 236 /\ ByteIn(b, i + 1, 128, 191))
              \/ (x = 237 /\ ByteIn(b, i + 1, 128, 159))
              \/ (x >= 238 /\ x <= 239 /\ ByteIn(b, i + 1, 128, 191))
              \/ (x = 240 /\ ByteIn(b, i + 1, 144, 191))
              \/ (x >= 241 /\ x <= 243 /\ ByteIn(b, i + 1, 128, 191))
              \/ (x = 244 /\ ByteIn(b, i + 1, 128, 143))
        /\ w >= 3 => ByteIn(b, i + 2, 128, 191)
        /\ w >= 4 => ByteIn(b, i + 3, 128, 191)

\* String::from_utf8 succeeds: every byte that is not a continuation byte
\* opens a well-formed sequence, and every continuation byte lies in one
from_utf8_ok(b) ==
    \A i \in 1 .. Len(b) :
        IF b[i] < 128 \/ b[i] > 191 THEN utf8_seq_at(b, i)
        ELSE \E k \in 1 .. 3 :
                /\ i - k >= 1
                /\ (b[i - k] < 128 \/ b[i - k] > 191)
                /\ utf8_width(b[i - k]) > k
                /\ \A j \in (i - k + 1) .. (i - 1) : ByteIn(b, j, 128, 191)

\* the number of chars of the UTF-8 string b: the bytes that are not
\* continuation bytes
chars_count(b) == Cardinality({i \in 1 .. Len(b) : b[i] < 128 \/ b[i] > 191})

read_sb_bytes(s, pos) ==
    LET length == read_sb_vlqu(s, pos)
    IN  IF ~length.ok THEN length
        ELSE IF vec_panics(length.val) THEN Err("Panic", length.pos)
        ELSE read_exact_u64(s, length.pos, length.val)

read_sb_string(s, pos) ==
    LET bytes == read_sb_bytes(s, pos)
    IN  IF ~bytes.ok THEN bytes
        ELSE IF from_utf8_ok(bytes.val) THEN bytes
        ELSE Err("Utf8", bytes.pos)

\* the number of turns of `for _ in 0..count`: every turn consumes a byte or
\* fails, so on a stream shorter than 2^30 bytes a larger count runs as 2^30
loop_count(count) == IF Small(count) THEN ToNat(count) ELSE 2 ^ 30

\* HashMap::new()
EmptyMap == [k \in {} |-> 0]

\* out.insert(key, val)
insert(out, key, val) ==
    [k \in (DOMAIN out) \cup {key} |-> IF k = key THEN val ELSE out[k]]

RECURSIVE read_sb_dynamic(_, _)
RECURSIVE read_list_loop(_, _, _, _)
RECURSIVE read_map_loop(_, _, _, _)

RECURSIVE list_push(_, _, _, _)
RECURSIVE map_key(_, _, _, _)
RECURSIVE map_insert(_, _, _, _, _)

\* out.push(d?) and the turns of the loop that follow
list_push(s, n, out, d) ==
    IF ~d.ok THEN d ELSE read_list_loop(s, d.pos, n - 1, Append(out, d.val))

\* the for loop of read_sb_list, n turns left
read_list_loop(s, pos, n, out) ==
    IF n = 0 THEN Ok(out, pos) ELSE list_push(s, n, out, read_sb_dynamic(s, pos))

read_sb_list(s, pos) ==
    LET count == read_sb_vlqu(s, pos)
    IN  IF ~count.ok THEN count
        ELSE read_list_loop(s, count.pos, loop_count(count.val), <<>>)

\* out.insert(key, d?) and the turns of the loop that follow
map_insert(s, n, out, key, d) ==
    IF ~d.ok THEN d ELSE read_map_loop(s, d.pos, n - 1, insert(out, key, d.val))

\* the value read once the key has been
map_key(s, n, out, key) ==
    IF ~key.ok THEN key ELSE map_insert(s, n, out, key.val, read_sb_dynamic(s, key.pos))

\* the for loop of read_sb_map, n turns left
read_map_loop(s, pos, n, out) ==
    IF n = 0 THEN Ok(out, pos) ELSE map_key(s, n, out, read_sb_string(s, pos))

read_sb_map(s, pos) ==
    LET count == read_sb_vlqu(s, pos)
    IN  IF ~count.ok THEN count
        ELSE read_map_loop(s, count.pos, loop_count(count.val), EmptyMap)

\* Dynamic::Variant(r?): the value read wrapped in its variant
variant(tag, r) == IF r.ok THEN Ok(<<tag, r.val>>, r.pos) ELSE r

\* a read_sb_dynamic that takes the tag 0 for Nil as well
read_sb_dynamic_zero_nil(s, pos) ==
    LET tag == read_u8(s, pos)
    IN  IF ~tag.ok THEN tag
        ELSE CASE tag.val \in {0, 1} -> Ok(Nil, tag.pos)
               [] tag.val = 2 ->
                    LET r == read_exact(s, tag.pos, 8)
                    IN  IF r.ok THEN Ok(Double(BEToU64(r.val)), r.pos) ELSE r
               [] tag.val = 3 ->
                    LET r == read_u8(s, tag.pos)
                    IN  IF r.ok THEN Ok(Boolean(r.val # 0), r.pos) ELSE r
               [] tag.val = 4 -> variant("VlqI", read_sb_vlqi(s, tag.pos))
               [] tag.val = 5 -> variant("String", read_sb_string(s, tag.pos))
               [] tag.val = 6 -> variant("List", read_sb_list(s, tag.pos))
               [] tag.val = 7 -> variant("Map", read_sb_map(s, tag.pos))
               [] OTHER -> [Err("DynamicTypeError", tag.pos) EXCEPT !.arg = tag.val]

read_sb_dynamic(s, pos) ==
    LET tag == read_u8(s, pos)
    IN  IF ~tag.ok THEN tag
        ELSE CASE tag.val = 1 -> Ok(Nil, tag.pos)
               [] tag.val = 2 ->
                    LET r == read_exact(s, tag.pos, 8)
                    IN  IF r.ok THEN Ok(Double(BEToU64(r.val)), r.pos) ELSE r
               [] tag.val = 3 ->
                    LET r == read_u8(s, tag.pos)
                    IN  IF r.ok THEN Ok(Boolean(r.val # 0), r.pos) ELSE r
               [] tag.val = 4 -> variant("VlqI", read_sb_vlqi(s, tag.pos))
               [] tag.val = 5 -> variant("String", read_sb_string(s, tag.pos))
               [] tag.val = 6 -> variant("List", read_sb_list(s, tag.pos))
               [] tag.val = 7 -> variant("Map", read_sb_map(s, tag.pos))
               [] OTHER -> [Err("DynamicTypeError", tag.pos) EXCEPT !.arg = tag.val]

\* write_sb_bytes prefixing the number of chars, not of bytes
write_sb_bytes_chars(val) == write_sb_vlqu(FromNat(chars_count(val))) \o val

write_sb_bytes(val) == write_sb_vlqu(FromNat(Len(val))) \o val

write_sb_string(val) == write_sb_bytes(val)

(* A HashMap is iterated in an order the caller does not choose, so a      *)
(* writer of a Map has one output per order of its keys: the writers of    *)
(* Dynamics give the set of the byte sequences the call can write.         *)

RECURSIVE write_sb_dynamic(_)
RECURSIVE write_list_loop(_, _)
RECURSIVE write_map_loop(_, _)

\* the for loop of write_sb_list, from item i on
write_list_loop(val, i) ==
    IF i > Len(val) THEN {<<>>}
    ELSE {a \o b : a \in write_sb_dynamic(val[i]), b \in write_list_loop(val, i + 1)}

write_sb_list(val) ==
    {write_sb_vlqu(FromNat(Len(val))) \o b : b \in write_list_loop(val, 1)}

\* the for loop of write_sb_map, the keys still to come
write_map_loop(val, keys) ==
    IF keys = {} THEN {<<>>}
    ELSE UNION {{write_sb_string(key) \o a \o b :
                    a \in write_sb_dynamic(val[key]),
                    b \in write_map_loop(val, keys \ {key})} : key \in keys}

write_sb_map(val) ==
    {write_sb_vlqu(FromNat(Cardinality(DOMAIN val))) \o b :
        b \in write_map_loop(val, DOMAIN val)}

write_sb_dynamic(val) ==
    CASE Tag(val) = "Nil" -> {<<1>>}
      [] Tag(val) = "Double" -> {<<2>> \o U64ToBE(Val(val))}
      [] Tag(val) = "Boolean" -> {<<3, (IF Val(val) THEN 1 ELSE 0)>>}
      [] Tag(val) = "VlqI" -> {<<4>> \o write_sb_vlqi(Val(val))}
      [] Tag(val) = "String" -> {<<5>> \o write_sb_string(Val(val))}
      [] Tag(val) = "List" -> {<<6>> \o b : b \in write_sb_list(Val(val))}
      [] Tag(val) = "Map" -> {<<7>> \o b : b \in write_sb_map(Val(val))}

----------------------------------------------------------------------------
(* formats/sbasset.rs: the archive reader.                                 *)
(*                                                                         *)
(* The source is an in-memory Cursor<Vec<u8>>: its bytes and its position. *)
(* A seek to any offset succeeds; a read past the end is an I/O error.     *)
(* Every call leaves in its log the seeks it made and the byte ranges      *)
(* [from, to) its reads consumed.                                          *)

\* a position beyond the end of every source of the model
FarPos == 2 ^ 30

\* the position after inner.seek(SeekFrom::Start(off))
seek_to(off) == IF Small(off) THEN ToNat(off) ELSE FarPos

LogSeek(pos) == <<"seek", pos, pos>>
LogRead(from, to) == <<"read", from, to>>

\* 0x5342417373657436, "SBAsset6"
Magic == <<21314, 16755, 29541, 29750>>

None == <<"None", 0>>
Some(x) == <<"Some", x>>

\* rm.remove(tag)?.cast::<String>()
get(rm, tag) ==
    IF tag \in DOMAIN rm /\ Tag(rm[tag]) = "String" THEN Some(Val(rm[tag])) ELSE None

\* rm.remove(tag)?.cast::<List>()?.into_iter().map(|d| d.cast()).collect()
get_list(rm, tag) ==
    IF tag \in DOMAIN rm /\ Tag(rm[tag]) = "List"
       /\ \A i \in 1 .. Len(Val(rm[tag])) : Tag(Val(rm[tag])[i]) = "String"
    THEN Some([i \in 1 .. Len(Val(rm[tag])) |-> Val(Val(rm[tag])[i])])
    ELSE None

\* Metadata { internal_name: get(&mut rm, "name"), ... }
metadata(rm) ==
    [internal_name |-> get(rm, <<110, 97, 109, 101>>),
     friendly_name |-> get(rm, <<102, 114, 105, 101, 110, 100, 108, 121, 78, 97, 109, 101>>),
     author |-> get(rm, <<97, 117, 116, 104, 111, 114>>),
     description |-> get(rm, <<100, 101, 115, 99, 114, 105, 112, 116, 105, 111, 110>>),
     steam_id |-> get(rm, <<115, 116, 101, 97, 109, 67, 111, 110, 116, 101, 110, 116, 73, 100>>),
     tags |-> get(rm, <<116, 97, 103, 115>>),
     version |-> get(rm, <<118, 101, 114, 115, 105, 111, 110>>),
     link |-> get(rm, <<108, 105, 110, 107>>),
     includes |-> get_list(rm, <<105, 110, 99, 108, 117, 100, 101, 115>>),
     requires |-> get_list(rm, <<114, 101, 113, 117, 105, 114, 101, 115>>)]

NoMeta == metadata(EmptyMap)

\* what AssetReader::new returns: res is "Ok" or the error, and with it the
\* position it left the source at, the index, the metadata and its log
NewResult(res, pos, fs, mt, lg) ==
    [res |-> res, pos |-> pos, files |-> fs, meta |-> mt, log |-> lg]

\* the AssetError an SbonError r converts to
SbonErr(r) == IF r.err = "Panic" THEN "Panic" ELSE "Sbon"

\* new returning the error res at position pos
NewFail(res, pos, lg) == NewResult(res, pos, EmptyMap, NoMeta, lg)

\* the for loop of new that reads the n entries still to come: the path, the
\* offset and the length are read in turn, each read ending new when it fails
RECURSIVE files_loop(_, _, _, _, _, _)
RECURSIVE files_path(_, _, _, _, _, _, _)
RECURSIVE files_offset(_, _, _, _, _, _, _, _)
RECURSIVE files_length(_, _, _, _, _, _, _, _, _)

\* a loop that also reads each entry's bytes as it indexes it
files_length_eager(data, pos, n, fs, mt, lg, path, offset, length) ==
    IF ~length.ok THEN NewFail("Io", length.pos, Append(lg, LogRead(pos, length.pos)))
    ELSE files_loop(data, length.pos, n - 1,
                    insert(fs, path, <<offset, BEToU64(length.val)>>),
                    mt,
                    lg \o <<LogRead(pos, length.pos), LogSeek(seek_to(offset)),
                            LogRead(seek_to(offset),
                                    read_exact_u64(data, seek_to(offset),
                                                   BEToU64(length.val)).pos),
                            LogSeek(length.pos)>>)

files_length(data, pos, n, fs, mt, lg, path, offset, length) ==
    IF ~length.ok THEN NewFail("Io", length.pos, Append(lg, LogRead(pos, length.pos)))
    ELSE files_loop(data, length.pos, n - 1,
                    insert(fs, path, <<offset, BEToU64(length.val)>>),
                    mt, Append(lg, LogRead(pos, length.pos)))

files_offset(data, pos, n, fs, mt, lg, path, offset) ==
    IF ~offset.ok THEN NewFail("Io", offset.pos, Append(lg, LogRead(pos, offset.pos)))
    ELSE files_length(data, offset.pos, n, fs, mt, Append(lg, LogRead(pos, offset.pos)),
                      path, BEToU64(offset.val), read_exact(data, offset.pos, 8))

files_path(data, pos, n, fs, mt, lg, path) ==
    IF ~path.ok THEN NewFail(SbonErr(path), path.pos, Append(lg, LogRead(pos, path.pos)))
    ELSE files_offset(data, path.pos, n, fs, mt, Append(lg, LogRead(pos, path.pos)),
                      path.val, read_exact(data, path.pos, 8))

files_loop(data, pos, n, fs, mt, lg) ==
    IF n = 0 THEN NewResult("Ok", pos, fs, mt, lg)
    ELSE files_path(data, pos, n, fs, mt, lg, read_sb_string(data, pos))

\* new once the entry count has been read from pos
new_count(data, pos, mt, lg, count) ==
    IF ~count.ok THEN NewFail("Sbon", count.pos, Append(lg, LogRead(pos, count.pos)))
    ELSE files_loop(data, count.pos, loop_count(count.val), EmptyMap, mt,
                    Append(lg, LogRead(pos, count.pos)))

\* new once the metadata Map rm has been read from pos
new_meta(data, pos, lg, rm) ==
    IF ~rm.ok THEN NewFail(SbonErr(rm), rm.pos, Append(lg, LogRead(pos, rm.pos)))
    ELSE new_count(data, rm.pos, metadata(rm.val), Append(lg, LogRead(pos, rm.pos)),
                   read_sb_vlqu(data, rm.pos))

\* new once the five bytes buf have been read from the index offset at: the
\* check compares buf with the empty string, which five bytes never equal
new_marker(data, at, lg, buf) ==
    IF ~buf.ok THEN NewFail("Io", buf.pos, Append(lg, LogRead(at, buf.pos)))
    ELSE IF buf.val = <<>>
    THEN NewFail("InvalidIndex", buf.pos, Append(lg, LogRead(at, buf.pos)))
    ELSE new_meta(data, buf.pos, Append(lg, LogRead(at, buf.pos)),
                  read_sb_map(data, buf.pos))

\* new from its seek to the index offset on
new_seek(data, at, lg) ==
    new_marker(data, at, Append(lg, LogSeek(at)), read_exact(data, at, 5))

\* new once the index offset has been read from pos
new_index(data, pos, lg, index_offset) ==
    IF ~index_offset.ok
    THEN NewFail("Io", index_offset.pos, Append(lg, LogRead(pos, index_offset.pos)))
    ELSE new_seek(data, seek_to(BEToU64(index_offset.val)),
                  Append(lg, LogRead(pos, index_offset.pos)))

\* a new that checks the magic only after it has gone through the index
new_magic_late(data, magic) ==
    IF ~magic.ok THEN NewFail("Io", magic.pos, <<LogRead(0, magic.pos)>>)
    ELSE IF BEToU64(magic.val) # Magic
    THEN NewFail("InvalidMagic",
                 new_index(data, magic.pos, <<LogRead(0, magic.pos)>>,
                           read_exact(data, magic.pos, 8)).pos,
                 new_index(data, magic.pos, <<LogRead(0, magic.pos)>>,
                           read_exact(data, magic.pos, 8)).log)
    ELSE new_index(data, magic.pos, <<LogRead(0, magic.pos)>>,
                   read_exact(data, magic.pos, 8))

\* new once the magic has been read
new_magic(data, magic) ==
    IF ~magic.ok THEN NewFail("Io", magic.pos, <<LogRead(0, magic.pos)>>)
    ELSE IF BEToU64(magic.val) # Magic
    THEN NewFail("InvalidMagic", magic.pos, <<LogRead(0, magic.pos)>>)
    ELSE new_index(data, magic.pos, <<LogRead(0, magic.pos)>>,
                   read_exact(data, magic.pos, 8))

\* AssetReader::new(inner) on a source at position 0
new(data) == new_magic(data, read_exact(data, 0, 8))

\* what read_file, and a step of the iterator, return: res is "Ok", "Io" or
\* "Panic", with the bytes read, the position left behind and the log
FileResult(res, bytes, pos, lg) == [res |-> res, bytes |-> bytes, pos |-> pos, log |-> lg]

\* what the read of a file's bytes, after the seek to at, returns
file_read(at, out) ==
    IF out.ok
    THEN FileResult("Ok", out.val, out.pos, <<LogSeek(at), LogRead(at, out.pos)>>)
    ELSE FileResult("Io", <<>>, out.pos, <<LogSeek(at), LogRead(at, out.pos)>>)

\* the seek to at and the read of n bytes there
file_seek(data, at, n) == file_read(at, read_exact_u64(data, at, n))

\* a read_file that reads where the source happens to be
read_file_noseek(data, pos, info) ==
    IF vec_panics(info[2]) THEN FileResult("Panic", <<>>, pos, <<>>)
    ELSE file_seek(data, pos, info[2])

\* read_file(&info) on the source data at position pos
read_file(data, pos, info) ==
    IF vec_panics(info[2]) THEN FileResult("Panic", <<>>, pos, <<>>)
    ELSE file_seek(data, seek_to(info[1]), info[2])

\* get_file(path): None, or Some of read_file's result
get_file(data, pos, fs, path) ==
    IF path \notin DOMAIN fs THEN FileResult("None", <<>>, pos, <<>>)
    ELSE read_file(data, pos, fs[path])

\* get_paths()
get_paths(fs) == DOMAIN fs

\* has_file(path)
has_file(fs, path) == path \in DOMAIN fs

\* AssetReadIter::next() when the index iterator hands out (path, info)
iter_next(data, pos, info) ==
    IF vec_panics(info[2]) THEN FileResult("Panic", <<>>, pos, <<>>)
    ELSE file_seek(data, seek_to(info[1]), info[2])

----------------------------------------------------------------------------
(* sbon.rs: the older readers of the unsigned and the signed varint. *)

\* read_sb_varint(): the loop ends only with a byte whose high bit is clear
read_sb_varint(s, pos) == varint_loop(s, pos, Zero64)

\* read_sb_signed_varint(): i64::try_from fails from 2^63 on; an odd val
\* becomes -(val >> 1) - 1, an even val is returned as it is
read_sb_signed_varint(s, pos) ==
    LET r == read_sb_varint(s, pos)
    IN  IF ~r.ok THEN r
        ELSE IF IsNeg(r.val) THEN Err("InvalidSignedVarint", r.pos)
        ELSE IF Low1(r.val) # 0 THEN Ok(Dec64(Neg64(Shr(r.val, 1))), r.pos)
        ELSE Ok(r.val, r.pos)

----------------------------------------------------------------------------
(* formats/sbvj.rs: the versioned document, a name, a flag byte, a version *)
(* when the flag says so, and a Dynamic.                                   *)

\* byteorder's read_i32::<BigEndian> of four bytes
BEToI32(b) ==
    ((IF b[1] >= 128 THEN b[1] - 256 ELSE b[1]) * 16777216)
    + (b[2] * 65536) + (b[3] * 256) + b[4]

\* Ok(VJson { name, version, data }) once data has been read
vjson_data(name, version, data) ==
    IF ~data.ok THEN data ELSE Ok(<<name, version, data.val>>, data.pos)

\* a read_sb_vjson that takes every flag but 0 for a version
read_sb_vjson_any_flag(s, pos) ==
    LET name == read_sb_string(s, pos)
        flag == read_u8(s, name.pos)
        version == IF flag.val # 0
                   THEN IF read_exact(s, flag.pos, 4).ok
                        THEN Ok(Some(BEToI32(read_exact(s, flag.pos, 4).val)), flag.pos + 4)
                        ELSE read_exact(s, flag.pos, 4)
                   ELSE Ok(None, flag.pos)
    IN  IF ~name.ok THEN name
        ELSE IF ~flag.ok THEN flag
        ELSE IF ~version.ok THEN version
        ELSE vjson_data(name.val, version.val, read_sb_dynamic(s, version.pos))

\* read_sb_vjson(): the version is read when self.read_u8()? & 1 == 1
read_sb_vjson(s, pos) ==
    LET name == read_sb_string(s, pos)
        flag == read_u8(s, name.pos)
        version == IF flag.val % 2 = 1
                   THEN IF read_exact(s, flag.pos, 4).ok
                        THEN Ok(Some(BEToI32(read_exact(s, flag.pos, 4).val)), flag.pos + 4)
                        ELSE read_exact(s, flag.pos, 4)
                   ELSE Ok(None, flag.pos)
    IN  IF ~name.ok THEN name
        ELSE IF ~flag.ok THEN flag
        ELSE IF ~version.ok THEN version
        ELSE vjson_data(name.val, version.val, read_sb_dynamic(s, version.pos))

\* the bytes and the result of a write that ran into an I/O error
WriteErr(out) == [ok |-> FALSE, out |-> out]

\* write_sb_vjson(val) on a writer that holds out and whose writes of the
\* parts in fails end in an I/O error: the results of write_sb_string and of
\* write_sb_dynamic are dropped, those of the flag and the version are not.
\* One result for every order the data's Maps may be written in.
write_sb_vjson(out, val, fails) ==
    {IF "flag" \in fails
     THEN WriteErr(out \o (IF "name" \in fails THEN <<>> ELSE write_sb_string(val[1])))
     ELSE IF val[2] # None /\ "version" \in fails
     THEN WriteErr(out \o (IF "name" \in fails THEN <<>> ELSE write_sb_string(val[1]))
                   \o <<1>>)
     ELSE [ok |-> TRUE,
           out |-> out
                   \o (IF "name" \in fails THEN <<>> ELSE write_sb_string(val[1]))
                   \o (IF val[2] = None THEN <<0>>
                       ELSE <<1, (Val(val[2]) \div 16777216) % 256,
                              (Val(val[2]) \div 65536) % 256,
                              (Val(val[2]) \div 256) % 256, Val(val[2]) % 256>>)
                   \o (IF "data" \in fails THEN <<>> ELSE enc)]
     : enc \in write_sb_dynamic(val[3])}

\* write_sb_sbvj01(val): "SBVJ01", then the document
write_sb_sbvj01(out, val, fails) ==
    IF "magic" \in fails THEN {WriteErr(out)}
    ELSE write_sb_vjson(out \o <<83, 66, 86, 74, 48, 49>>, val, fails)

----------------------------------------------------------------------------
(* The VLQ codec driven on sample values: a value is written to an empty   *)
(* Vec<u8>, some bytes may follow it, and the stream is read from its      *)
(* start.                                                                  *)

\* the u64 (and, read in two's complement, i64) values written
U64Samples ==
    {Bit(k) : k \in Bits} \cup {Ones(k) : k \in 0 .. W}
    \cup {OrByte(Bit(k), 1) : k \in Bits}
    \cup {FromNat(n) : n \in 0 .. SmallMax}
    \cup {Not64(FromNat(n)) : n \in 0 .. SmallMax}

\* the bytes that follow a written value in the stream
Tails == {<<>>, <<128>>, <<255, 1>>}

\* n continuation-flagged bytes b
Cont(b, n) == [i \in 1 .. n |-> b]

\* streams that are not the output of a writer
RawStreams ==
    {Cont(b, n) \o t : b \in {128, 255, 129}, n \in 0 .. MaxCont, t \in {<<>>, <<1>>, <<127, 128>>}}

NoRes == Err("none", 0)

NoIn == [kind |-> "none", v |-> Zero64, n |-> 0]

\* what the last call on the reader returned
Last(op, path, res, bytes, paths) ==
    [op |-> op, path |-> path, res |-> res, bytes |-> bytes, paths |-> paths]

NoArch ==
    [magic |-> <<>>, marker |-> <<>>, meta |-> EmptyMap, entries |-> <<>>, whole |-> FALSE]

\* no archive is open
AIdle ==
    /\ aphase = "off"
    /\ arch = NoArch
    /\ inner = [data |-> <<>>, pos |-> 0]
    /\ files = EmptyMap
    /\ meta = NoMeta
    /\ log = <<>>
    /\ last = Last("none", <<>>, "none", <<>>, {})
    /\ iter = EmptyMap
    /\ yielded = <<>>
    /\ hadErr = FALSE

CInit ==
    /\ cphase = "idle"
    /\ cin = NoIn
    /\ cstream = <<>>
    /\ cres = NoRes

VlqInit == CInit /\ AIdle

Write_vlqu ==
    /\ cphase = "idle"
    /\ \E v \in U64Samples, t \in Tails :
          /\ cin' = [kind |-> "vlqu", v |-> v, n |-> Len(write_sb_vlqu(v))]
          /\ cstream' = write_sb_vlqu(v) \o t
    /\ cphase' = "written"
    /\ UNCHANGED <<cres, avars>>

Write_vlqi ==
    /\ cphase = "idle"
    /\ \E v \in U64Samples, t \in Tails :
          /\ cin' = [kind |-> "vlqi", v |-> v, n |-> Len(write_sb_vlqi(v))]
          /\ cstream' = write_sb_vlqi(v) \o t
    /\ cphase' = "written"
    /\ UNCHANGED <<cres, avars>>

Feed_raw ==
    /\ cphase = "idle"
    /\ \E s \in RawStreams :
          /\ cin' = [kind |-> "raw", v |-> Zero64, n |-> 0]
          /\ cstream' = s
    /\ cphase' = "written"
    /\ UNCHANGED <<cres, avars>>

Read_vlqu ==
    /\ cphase = "written"
    /\ cin.kind \in {"vlqu", "raw"}
    /\ cres' = read_sb_vlqu(cstream, 0)
    /\ cphase' = "read"
    /\ UNCHANGED <<cin, cstream, avars>>

Read_vlqi ==
    /\ cphase = "written"
    /\ cin.kind = "vlqi"
    /\ cres' = read_sb_vlqi(cstream, 0)
    /\ cphase' = "read"
    /\ UNCHANGED <<cin, cstream, avars>>

VlqNext == Write_vlqu \/ Write_vlqi \/ Feed_raw \/ Read_vlqu \/ Read_vlqi

SpecVlq == VlqInit /\ [][VlqNext]_vars

----------------------------------------------------------------------------
(* The Dynamic codec driven on sample values, as the VLQ codec is.         *)

\* the f64 bit patterns written: 0.0, -0.0, 1.5 and a NaN with a payload
F64Samples == {Zero64, Bit(W - 1), <<16376, 0, 0, 0>>, <<32760, 0, 0, 1>>}

\* a string of 128 bytes, whose length takes two VLQ bytes
LongStr == [i \in 1 .. 128 |-> 120]

\* "", "a", "\u{e9}" (two bytes, one char) and the long string
StrSamples == {<<>>, <<97>>, <<195, 169>>, LongStr}

Key1 == <<97>>
Key2 == <<107, 195, 169>>

MapOf1(k, d) == Map([x \in {k} |-> d])
MapOf2(k1, d1, k2, d2) == Map([x \in {k1, k2} |-> IF x = k1 THEN d1 ELSE d2])

DynLeaves ==
    {Nil, Boolean(TRUE), Boolean(FALSE)}
    \cup {Double(x) : x \in F64Samples}
    \cup {VlqI(x) : x \in {Zero64, Ones(W), I64Min, I64Max, FromNat(300)}}
    \cup {String(x) : x \in StrSamples}

DynFew == {Nil, Boolean(TRUE), VlqI(Ones(W)), String(<<195, 169>>)}

\* the leaves, and the Lists and Maps of up to two leaves
DynFlat ==
    DynLeaves \cup {List(<<>>), Map(EmptyMap)}
    \cup {List(<<a>>) : a \in DynLeaves}
    \cup {List(<<a, b>>) : a \in DynFew, b \in DynFew}
    \cup {MapOf1(k, a) : k \in {Key1, Key2}, a \in DynLeaves}
    \cup {MapOf2(Key1, a, Key2, b) : a \in DynFew, b \in DynFew}

\* the values that are wrapped further
DynCore ==
    {VlqI(Ones(W)), String(<<195, 169>>), List(<<Boolean(TRUE), Nil>>),
     MapOf2(Key1, Nil, Key2, String(<<97>>))}

\* DynCore, each value wrapped n times in a one-item List or a two-key Map
RECURSIVE DynWrapped(_)
DynWrapped(n) ==
    IF n = 0 THEN DynCore
    ELSE LET S == DynWrapped(n - 1)
         IN  {List(<<d>>) : d \in S} \cup {MapOf2(Key1, d, Key2, Nil) : d \in S}

DynSamples == DynFlat \cup UNION {DynWrapped(n) : n \in 1 .. MaxDepth}

Write_dynamic ==
    /\ cphase = "idle"
    /\ \E d \in DynSamples :
          \E enc \in write_sb_dynamic(d) :
             \E t \in Tails :
                /\ cin' = [kind |-> "dynamic", v |-> d, n |-> Len(enc)]
                /\ cstream' = enc \o t
    /\ cphase' = "written"
    /\ UNCHANGED <<cres, avars>>

Read_dynamic ==
    /\ cphase = "written"
    /\ cin.kind \in {"dynamic", "tag"}
    /\ cres' = read_sb_dynamic(cstream, 0)
    /\ cphase' = "read"
    /\ UNCHANGED <<cin, cstream, avars>>

DynNext == Write_dynamic \/ Read_dynamic

SpecDyn == VlqInit /\ [][DynNext]_vars

----------------------------------------------------------------------------
(* The readers driven on byte streams that no writer produced: declared    *)
(* lengths that the stream does not hold, tags and flags of every value.   *)
(* And the document writer driven on writers that fail.                    *)

\* the lengths a string declares: a few that a stream can hold, some that
\* exceed any sample stream, and those above isize::MAX.  (A length between
\* is left out: whether its buffer can be allocated depends on the
\* allocator.)
StrLens ==
    {FromNat(n) : n \in 0 .. (MaxBody + 1)}
    \cup {FromNat(200), Bit(14), Bit(W - 1), Inc64(Bit(W - 1)), Ones(W)}

\* the bytes that follow the declared length: 'a' and an ill-formed 0xFF
Bodies == UNION {[1 .. n -> {97, 255}] : n \in 0 .. MaxBody}

Feed_string ==
    /\ cphase = "idle"
    /\ \E len \in StrLens, b \in Bodies :
          /\ cin' = [kind |-> "string", v |-> len, n |-> Len(write_sb_vlqu(len))]
          /\ cstream' = write_sb_vlqu(len) \o b
    /\ cphase' = "written"
    /\ UNCHANGED <<cres, avars>>

Read_string ==
    /\ cphase = "written"
    /\ cin.kind = "string"
    /\ cres' = read_sb_string(cstream, 0)
    /\ cphase' = "read"
    /\ UNCHANGED <<cin, cstream, avars>>

\* a stream that opens with the tag byte t, whatever its value
Feed_tag ==
    /\ cphase = "idle"
    /\ \E tag \in 0 .. 255, t \in {<<>>, <<0>>, <<1, 9>>, <<1, 1, 97, 8>>} :
          /\ cin' = [kind |-> "tag", v |-> Zero64, n |-> 1]
          /\ cstream' = <<tag>> \o t
    /\ cphase' = "written"
    /\ UNCHANGED <<cres, avars>>

\* a document of a short name, any flag byte, and bytes that read as a
\* version and a Dynamic, or as a Dynamic at once
Feed_vjson ==
    /\ cphase = "idle"
    /\ \E name \in {<<>>, <<97>>}, flag \in 0 .. 255,
          t \in {<<0, 0, 0, 42, 1>>, <<255, 255, 255, 255, 3, 1>>, <<128, 0, 0, 0, 1, 9>>,
                 <<1, 0, 0, 0, 42>>, <<4, 1, 2, 3, 1>>, <<1>>, <<0, 0>>} :
          /\ cin' = [kind |-> "vjson", v |-> Zero64, n |-> Len(write_sb_string(name))]
          /\ cstream' = write_sb_string(name) \o <<flag>> \o t
    /\ cphase' = "written"
    /\ UNCHANGED <<cres, avars>>

Read_vjson ==
    /\ cphase = "written"
    /\ cin.kind = "vjson"
    /\ cres' = read_sb_vjson(cstream, 0)
    /\ cphase' = "read"
    /\ UNCHANGED <<cin, cstream, avars>>

\* a document written, bare or behind "SBVJ01", to a writer some of whose
\* writes fail
Write_vjson ==
    /\ cphase = "idle"
    /\ \E name \in {<<>>, <<97>>}, version \in {None, Some(42), Some(0 - 1)},
          data \in {Nil, String(<<97>>), MapOf2(Key1, Nil, Key2, Boolean(TRUE))},
          fails \in SUBSET {"magic", "name", "flag", "version", "data"},
          env \in BOOLEAN :
          \E r \in (IF env THEN write_sb_sbvj01(<<>>, <<name, version, data>>, fails)
                     ELSE write_sb_vjson(<<>>, <<name, version, data>>, fails)) :
             /\ cin' = [kind |-> "document", v |-> <<name, version, data>>, n |-> 0,
                        fails |-> fails, env |-> env]
             /\ cstream' = r.out
             /\ cres' = (IF r.ok THEN Ok(0, Len(r.out)) ELSE Err("Io", Len(r.out)))
    /\ cphase' = "written"
    /\ UNCHANGED avars

\* what write_sb_vlqi wrote, read by the reader of sbon.rs
Read_signed_varint ==
    /\ cphase = "written"
    /\ cin.kind = "vlqi"
    /\ cres' = read_sb_signed_varint(cstream, 0)
    /\ cphase' = "read"
    /\ UNCHANGED <<cin, cstream, avars>>

BytesNext ==
    \/ Feed_string \/ Read_string
    \/ Feed_tag \/ Read_dynamic
    \/ Feed_vjson \/ Read_vjson
    \/ Write_vjson
    \/ Write_vlqi \/ Read_signed_varint

SpecBytes == VlqInit /\ [][BytesNext]_vars

----------------------------------------------------------------------------
(* The archive reader driven on sample archives.  A sample is laid out as  *)
(* the format is: the magic, the offset of the index, the payload bytes,   *)
(* then the index: its marker, the metadata Map, the entry count and the   *)
(* entries.  arch remembers what the sample was built from, and whether    *)
(* the source holds all of it.                                             *)

PathA == <<97>>
PathB == <<98>>
PathC == <<99, 47, 100>>
PathMissing == <<122, 122>>

\* the paths asked for
QueryPaths == {PathA, PathB, PathC, PathMissing}

\* the payload: bytes 201, 202, ... at the offsets 16, 17, ...
Payload == [i \in 1 .. PayloadLen |-> 200 + i]

PayloadStart == 16
IndexStart == PayloadStart + PayloadLen

Entry(path, off, len) == <<path, off, len>>

\* the entries of the sample indexes: in bounds, reaching past the end,
\* longer than isize::MAX, beyond the end, repeated, empty, and laid over the
\* header and the index
EntrySets ==
    {<<>>,
     <<Entry(PathA, FromNat(16), FromNat(3)), Entry(PathB, FromNat(19), FromNat(PayloadLen - 3))>>,
     <<Entry(PathA, FromNat(17), FromNat(2)), Entry(PathB, FromNat(18), FromNat(OobLen)),
       Entry(PathC, FromNat(16), FromNat(PayloadLen))>>,
     <<Entry(PathA, FromNat(17), FromNat(2)), Entry(PathC, FromNat(16), Bit(W - 1))>>,
     <<Entry(PathB, Bit(W - 1), FromNat(1)), Entry(PathA, FromNat(16), FromNat(PayloadLen))>>,
     <<Entry(PathA, FromNat(16), FromNat(1)), Entry(PathA, FromNat(18), FromNat(2))>>,
     <<Entry(PathC, FromNat(20), FromNat(0)), Entry(PathB, Ones(W), Ones(W))>>,
     <<Entry(PathA, FromNat(0), FromNat(8)), Entry(PathB, FromNat(IndexStart), FromNat(5))>>}

\* "SBAsset6" and "SBAsset5"
MagicSamples == {<<83, 66, 65, 115, 115, 101, 116, 54>>, <<83, 66, 65, 115, 115, 101, 116, 53>>}

\* "INDEX", "INDEx" and "XXXXX"
MarkerSamples == {<<73, 78, 68, 69, 88>>, <<73, 78, 68, 69, 120>>, <<88, 88, 88, 88, 88>>}

IndexMarker == <<73, 78, 68, 69, 88>>

\* no metadata, and a name with a list of includes
MetaSamples ==
    {EmptyMap,
     [k \in {<<110, 97, 109, 101>>, <<105, 110, 99, 108, 117, 100, 101, 115>>} |->
        IF k = <<110, 97, 109, 101>> THEN String(<<109>>) ELSE List(<<String(<<120>>)>>)]}

ArchSamples ==
    [magic : MagicSamples, marker : MarkerSamples, meta : MetaSamples, entries : EntrySets]

RECURSIVE entries_bytes(_, _)
entries_bytes(es, i) ==
    IF i > Len(es) THEN <<>>
    ELSE write_sb_string(es[i][1]) \o U64ToBE(es[i][2]) \o U64ToBE(es[i][3])
         \o entries_bytes(es, i + 1)

\* the bytes of the sample a, its metadata Map written as m
archive_bytes(a, m) ==
    a.magic \o U64ToBE(FromNat(IndexStart)) \o Payload
    \o a.marker \o m \o write_sb_vlqu(FromNat(Len(a.entries))) \o entries_bytes(a.entries, 1)

\* the lengths a sample of n bytes is cut to: whole, a little short, and for
\* the plainest sample also inside the magic, the index offset, the payload,
\* the marker and the metadata
Keeps(a, n) ==
    {n - c : c \in 0 .. MaxCut}
    \cup (IF a.meta = EmptyMap /\ Len(a.entries) = 2 /\ a.entries[1][3] = FromNat(3)
          THEN {0, 4, 12, 18, IndexStart + 3, IndexStart + 5}
          ELSE {})

AssetInit ==
    /\ CInit
    /\ aphase = "start"
    /\ \E a \in ArchSamples :
          \E m \in write_sb_map(a.meta) :
             \E n \in Keeps(a, Len(archive_bytes(a, m))) :
                /\ arch = [magic |-> a.magic, marker |-> a.marker, meta |-> a.meta,
                            entries |-> a.entries,
                            whole |-> (n = Len(archive_bytes(a, m)))]
                /\ inner = [data |-> SubSeq(archive_bytes(a, m), 1, n), pos |-> 0]
    /\ files = EmptyMap
    /\ meta = NoMeta
    /\ log = <<>>
    /\ last = Last("none", <<>>, "none", <<>>, {})
    /\ iter = EmptyMap
    /\ yielded = <<>>
    /\ hadErr = FALSE

\* the phase a call that returned res leaves the reader in
After(res, phase) == IF res = "Panic" THEN "panicked" ELSE phase

\* the reader after new returned r
NewDone(r) ==
    /\ aphase' = (IF r.res = "Ok" THEN "reader" ELSE After(r.res, "failed"))
    /\ inner' = [inner EXCEPT !.pos = r.pos]
    /\ files' = r.files
    /\ meta' = r.meta
    /\ log' = r.log
    /\ last' = Last("new", <<>>, r.res, <<>>, {})

New ==
    /\ aphase = "start"
    /\ NewDone(new(inner.data))
    /\ UNCHANGED <<arch, iter, yielded, hadErr, cvars>>

\* the reader after get_file(path) returned r
GetFileDone(path, r) ==
    /\ aphase' = After(r.res, "reader")
    /\ inner' = [inner EXCEPT !.pos = r.pos]
    /\ log' = r.log
    /\ last' = Last("get_file", path, r.res, r.bytes, {})
    /\ hadErr' = (hadErr \/ r.res = "Io")

GetFile ==
    /\ aphase = "reader"
    /\ \E path \in QueryPaths :
          GetFileDone(path, get_file(inner.data, inner.pos, files, path))
    /\ UNCHANGED <<arch, files, meta, iter, yielded, cvars>>

GetPaths ==
    /\ aphase = "reader"
    /\ log' = <<>>
    /\ last' = Last("get_paths", <<>>, "Ok", <<>>, get_paths(files))
    /\ UNCHANGED <<aphase, arch, inner, files, meta, iter, yielded, hadErr, cvars>>

HasFile ==
    /\ aphase = "reader"
    /\ \E path \in QueryPaths :
          last' = Last("has_file", path, (IF has_file(files, path) THEN "true" ELSE "false"),
                       <<>>, {})
    /\ log' = <<>>
    /\ UNCHANGED <<aphase, arch, inner, files, meta, iter, yielded, hadErr, cvars>>

\* into_iter(): the reader is consumed, the index becomes the iterator
IntoIter ==
    /\ aphase = "reader"
    /\ aphase' = "iter"
    /\ iter' = files
    /\ yielded' = <<>>
    /\ log' = <<>>
    /\ last' = Last("into_iter", <<>>, "Ok", <<>>, {})
    /\ UNCHANGED <<arch, inner, files, meta, hadErr, cvars>>

\* the map m without its key k
Without(m, k) == [x \in (DOMAIN m) \ {k} |-> m[x]]

\* the iterator after next() read the entry of path and returned r
IterDone(path, r) ==
    /\ aphase' = After(r.res, "iter")
    /\ inner' = [inner EXCEPT !.pos = r.pos]
    /\ iter' = Without(iter, path)
    /\ yielded' = Append(yielded, <<path, r.res, r.bytes>>)
    /\ log' = r.log
    /\ last' = Last("next", path, r.res, r.bytes, {})

\* AssetReadIter::next(): the index iterator hands out its entries in an
\* order the caller does not choose
IterNext ==
    /\ aphase = "iter"
    /\ IF DOMAIN iter = {}
       THEN /\ aphase' = "done"
            /\ last' = Last("next", <<>>, "None", <<>>, {})
            /\ log' = <<>>
            /\ UNCHANGED <<inner, iter, yielded>>
       ELSE \E path \in DOMAIN iter :
               IterDone(path, iter_next(inner.data, inner.pos, iter[path]))
    /\ UNCHANGED <<arch, files, meta, hadErr, cvars>>

AssetNext == New \/ GetFile \/ GetPaths \/ HasFile \/ IntoIter \/ IterNext

SpecAsset == AssetInit /\ [][AssetNext]_vars

----------------------------------------------------------------------------
(* Claims on the archive reader.  They are stated against the sample       *)
(* archive itself: its entries as they were laid out, and its bytes.       *)

\* the index the entries es define: the last entry of a path is its entry
IndexOf(es) ==
    [path \in {es[i][1] : i \in 1 .. Len(es)} |->
        LET i == CHOOSE j \in 1 .. Len(es) :
                    /\ es[j][1] = path
                    /\ \A k \in (j + 1) .. Len(es) : es[k][1] # path
        IN  <<es[i][2], es[i][3]>>]

\* the region of the entry info lies within the source
InBounds(data, info) ==
    /\ Small(info[1]) /\ Small(info[2])
    /\ ToNat(info[1]) + ToNat(info[2]) <= Len(data)

\* the bytes of an in-bounds region
Region(data, info) ==
    SubSeq(data, ToNat(info[1]) + 1, ToNat(info[1]) + ToNat(info[2]))

\* the byte at position q belongs to the region of the entry info
RegionHas(info, q) ==
    /\ Small(info[1]) /\ ToNat(info[1]) <= q
    /\ (Small(info[2]) => q - ToNat(info[1]) < ToNat(info[2]))

\* the logged call it reads the byte at q, or seeks to it
Touches(it, q) ==
    IF it[1] = "seek" THEN it[2] = q ELSE it[2] <= q /\ q < it[3]

Seeks(lg) == {i \in 1 .. Len(lg) : lg[i][1] = "seek"}
Reads(lg) == {i \in 1 .. Len(lg) : lg[i][1] = "read"}

\* the last call was the one named
JustDid(op) == last.op = op /\ aphase # "start"

MarkerRead ==
    /\ JustDid("new")
    /\ Len(inner.data) >= IndexStart + 5
    /\ SubSeq(inner.data, 1, 8) = U64ToBE(Magic)

\* C5 as stated: new fails with the invalid-index error whenever the 5 bytes
\* read at the index offset are not exactly INDEX, and returns a reader only
\* when they are.
C5_InvalidIndex ==
    /\ (MarkerRead /\ SubSeq(inner.data, IndexStart + 1, IndexStart + 5) # IndexMarker)
          => last.res = "InvalidIndex"
    /\ (aphase = "reader")
          => SubSeq(inner.data, IndexStart + 1, IndexStart + 5) = IndexMarker

\* C6: when the first 8 bytes are not SBAsset6, new returns the invalid-magic
\* error having read only those 8 bytes: no seek, no read of the index
\* offset, nothing of the index or the metadata decoded.
C6_InvalidMagicFirst ==
    (JustDid("new") /\ Len(inner.data) >= 8 /\ SubSeq(inner.data, 1, 8) # U64ToBE(Magic)) =>
        /\ last.res = "InvalidMagic"
        /\ log = <<LogRead(0, 8)>>
        /\ inner.pos = 8
        /\ files = EmptyMap
        /\ meta = NoMeta

\* the magic is wrong on an archive that is otherwise whole, with an index of
\* entries and metadata behind it
C6_Witness ==
    /\ JustDid("new") /\ last.res = "InvalidMagic"
    /\ arch.marker = IndexMarker /\ arch.meta # EmptyMap /\ Len(arch.entries) >= 2
    /\ Len(inner.data) > IndexStart + 5

\* C7 as stated: a successful new reads only the header and the index block;
\* it performs no seek to, and no read of, any entry's (offset, length)
\* region.
C7_NoEntryRegionRead ==
    (JustDid("new") /\ last.res = "Ok") =>
        \A path \in DOMAIN files :
           \A q \in 0 .. Len(inner.data) :
              RegionHas(files[path], q) => \A i \in 1 .. Len(log) : ~Touches(log[i], q)

\* C7 amended: a successful new reads only the 16 header bytes and the index
\* block, and seeks once, to the index offset; of an entry's region it reads
\* no byte that lies outside the header and the index block, and it seeks to
\* none.
C7_NewReadsHeaderAndIndexOnly ==
    (JustDid("new") /\ last.res = "Ok") =>
        /\ \A i \in Reads(log) :
              \/ log[i][3] <= PayloadStart
              \/ log[i][2] >= IndexStart /\ log[i][3] <= Len(inner.data)
        /\ \A i \in Seeks(log) : log[i][2] = IndexStart
        /\ Cardinality(Seeks(log)) = 1
        /\ \A path \in DOMAIN files :
              \A q \in PayloadStart .. (IndexStart - 1) :
                 RegionHas(files[path], q) => \A i \in 1 .. Len(log) : ~Touches(log[i], q)

\* new succeeded on an archive of two files that fill the payload
C7_Witness ==
    /\ JustDid("new") /\ last.res = "Ok"
    /\ Cardinality(DOMAIN files) = 2
    /\ \A path \in DOMAIN files : InBounds(inner.data, files[path])
    /\ \A q \in PayloadStart .. (IndexStart - 1) :
          \E path \in DOMAIN files : RegionHas(files[path], q)

\* C8 as stated: with an entry whose offset + length lies beyond the end of
\* the source new still succeeds; get_file on that entry returns an I/O
\* error, not None and not a panic; get_file on every in-bounds entry returns
\* its bytes before and after that failed call.
C8_OutOfBoundsDeferred ==
    /\ (JustDid("new") /\ arch.whole /\ arch.magic = U64ToBE(Magic)
        /\ arch.marker = IndexMarker)
          => last.res = "Ok"
    /\ (aphase \in {"reader", "panicked"} /\ JustDid("get_file")
        /\ last.path \in DOMAIN files)
          => IF InBounds(inner.data, files[last.path])
             THEN last.res = "Ok" /\ last.bytes = Region(inner.data, files[last.path])
             ELSE last.res = "Io"

\* C9 as stated: iteration yields one item per indexed path, each path at
\* most once, with one seek and one read per step, for each path read the
\* length bytes at its offset, and ends after as many steps as the index has
\* entries, also when steps yielded a read error.
C9_IterationComplete ==
    (aphase \in {"iter", "done", "panicked"} /\ last.op \in {"into_iter", "next"}) =>
        /\ \A i, j \in 1 .. Len(yielded) : yielded[i][1] = yielded[j][1] => i = j
        /\ \A i \in 1 .. Len(yielded) :
              /\ yielded[i][1] \in DOMAIN files
              /\ yielded[i][2] \in {"Ok", "Io"}
              /\ yielded[i][2] = "Ok" =>
                    /\ InBounds(inner.data, files[yielded[i][1]])
                    /\ yielded[i][3] = Region(inner.data, files[yielded[i][1]])
        /\ (last.op = "next" /\ aphase # "done") =>
              /\ Len(log) = 2
              /\ log[1][1] = "seek" /\ log[2][1] = "read"
        /\ Len(yielded) + Cardinality(DOMAIN iter) = Cardinality(DOMAIN files)
        /\ aphase = "done" <=> (last.res = "None")
        /\ aphase = "done" => Len(yielded) = Cardinality(DOMAIN files)
        /\ aphase # "panicked"

----------------------------------------------------------------------------
(* Claims on the VLQ codec. *)

\* C1: reading what write_sb_vlqu wrote for v returns v and consumes exactly
\* the bytes written; the encoding has ceil(bitlength(v)/7) bytes, one byte for
\* v = 0, and so never starts with the redundant continuation byte 0x80.
C1_VlquRoundTripMinimal ==
    (cphase = "read" /\ cin.kind = "vlqu") =>
        /\ cres.ok
        /\ cres.val = cin.v
        /\ cres.pos = cin.n
        /\ cin.n = (IF cin.v = Zero64 THEN 1 ELSE (BitLength(cin.v) + 6) \div 7)
        /\ cstream[1] # 128

C1_Witness ==
    /\ cphase = "read"
    /\ cin.kind = "vlqu"
    /\ cin.v = Ones(W)
    /\ cin.n = 10
    /\ cres.ok
    /\ cres.pos < Len(cstream)

\* C2: reading what write_sb_vlqi wrote for the i64 v returns v, for every
\* sample, 0, 1, -1, i64::MAX, i64::MIN + 1 and i64::MIN among them, and no
\* step of the encoder's i64 arithmetic overflows.
C2_VlqiRoundTrip ==
    (cphase = "read" /\ cin.kind = "vlqi") =>
        /\ cres.ok
        /\ cres.val = cin.v
        /\ cres.pos = cin.n
        /\ ~vlqi_arg(cin.v).ovf

C2_Witness ==
    /\ cphase = "read"
    /\ cin.kind = "vlqi"
    /\ cin.v = I64Min
    /\ cres.ok
    /\ cres.val = I64Min

\* whether every byte of s carries the continuation flag
AllCont(s) == \A i \in 1 .. Len(s) : s[i] >= 128

\* C10: read_sb_vlqu never consumes more than 10 bytes, and on a stream of 11
\* or more bytes that all carry the continuation flag it returns OversizedVLQ
\* with 10 bytes consumed.
C10_VlquBounded ==
    (cphase = "read" /\ cin.kind \in {"vlqu", "raw"}) =>
        /\ cres.pos <= 10
        /\ (Len(cstream) >= 11 /\ AllCont(cstream)) =>
               (~cres.ok /\ cres.err = "OversizedVLQ" /\ cres.pos = 10)

C10_Witness ==
    /\ cphase = "read"
    /\ cin.kind = "raw"
    /\ Len(cstream) = 12
    /\ AllCont(cstream)
    /\ cres.err = "OversizedVLQ"

\* the depth of Lists and Maps in the Dynamic d
RECURSIVE Depth(_)
Depth(d) ==
    LET kids == IF Tag(d) = "List" THEN {Val(d)[i] : i \in 1 .. Len(Val(d))}
                ELSE IF Tag(d) = "Map" THEN {Val(d)[k] : k \in DOMAIN Val(d)}
                ELSE {}
    IN  IF Tag(d) \notin {"List", "Map"} THEN 0
        ELSE IF kids = {} THEN 1
        ELSE 1 + (CHOOSE n \in {Depth(k) : k \in kids} :
                     \A m \in {Depth(k) : k \in kids} : m <= n)

\* C3: reading what write_sb_dynamic wrote for the Dynamic d, in whichever
\* order its Maps were iterated, returns a Dynamic equal to d (Maps as sets of
\* key/value pairs, Doubles by their bits) and consumes exactly the bytes
\* written.
C3_DynamicRoundTrip ==
    (cphase = "read" /\ cin.kind = "dynamic") =>
        /\ cres.ok
        /\ cres.val = cin.v
        /\ cres.pos = cin.n

C3_Witness ==
    /\ cphase = "read"
    /\ cin.kind = "dynamic"
    /\ Tag(cin.v) = "Map"
    /\ Depth(cin.v) >= 5
    /\ cres.ok
    /\ Tag(cres.val) = "Map"
    /\ Cardinality(DOMAIN Val(cres.val)) = 2
    /\ cres.pos < Len(cstream)

----------------------------------------------------------------------------
(* Claims on the readers of byte streams. *)

\* the string's declared length exceeds the bytes that follow it
DeclaredExceeds ==
    ~Small(cin.v) \/ ToNat(cin.v) > Len(cstream) - cin.n

\* C11 as stated: for every declared length, up to 2^64-1, that exceeds the
\* bytes remaining, read_sb_string returns a short-read I/O error; it never
\* panics, also not while allocating the buffer, and never returns a string.
C11_ShortReadIsError ==
    (cphase = "read" /\ cin.kind = "string" /\ DeclaredExceeds) =>
        /\ ~cres.ok
        /\ cres.err = "Io"

\* C12: for every byte t outside 1..=7, read_sb_dynamic on a stream that
\* starts with t fails with DynamicTypeError(t) having consumed exactly one
\* byte; for t in 1..=7 it never returns that error for the top-level tag.
C12_UnknownTag ==
    (cphase = "read" /\ cin.kind = "tag") =>
        IF cstream[1] \notin 1 .. 7
        THEN /\ ~cres.ok
             /\ cres.err = "DynamicTypeError"
             /\ cres.arg = cstream[1]
             /\ cres.pos = 1
        ELSE ~(cres.err = "DynamicTypeError" /\ (cres.pos = 1 \/ cres.arg = cstream[1]))

\* the tag 0xFF, with bytes behind it that are left unread
C12_Witness ==
    /\ cphase = "read" /\ cin.kind = "tag"
    /\ cstream[1] = 255 /\ Len(cstream) = 3
    /\ cres.err = "DynamicTypeError" /\ cres.arg = 255

\* where the Dynamic of the document read starts: after the flag byte at
\* cin.n + 1, or after the four version bytes behind it
DataAt == IF cstream[cin.n + 1] % 2 = 1 THEN cin.n + 5 ELSE cin.n + 1

\* C13: read_sb_vjson decides the version from the low bit of the flag alone,
\* for every flag 0..=255: bit 0 clear, the version is absent and no version
\* bytes are consumed; bit 0 set, the next 4 bytes are the big-endian i32
\* version (01 then 00 00 00 2A gives 42); either way the Dynamic is decoded
\* from the byte immediately after.
C13_FlagLowBit ==
    (cphase = "read" /\ cin.kind = "vjson") =>
        /\ cres.ok =>
              /\ cres.val[2] = (IF cstream[cin.n + 1] % 2 = 1
                                THEN Some(BEToI32(SubSeq(cstream, cin.n + 2, cin.n + 5)))
                                ELSE None)
              /\ read_sb_dynamic(cstream, DataAt).ok
              /\ cres.val[3] = read_sb_dynamic(cstream, DataAt).val
              /\ cres.pos = read_sb_dynamic(cstream, DataAt).pos
        /\ ~cres.ok =>
              \/ /\ cstream[cin.n + 1] % 2 = 1
                 /\ Len(cstream) < cin.n + 5
                 /\ cres.err = "Io"
              \/ /\ DataAt <= Len(cstream)
                 /\ ~read_sb_dynamic(cstream, DataAt).ok
                 /\ cres.err = read_sb_dynamic(cstream, DataAt).err
                 /\ cres.arg = read_sb_dynamic(cstream, DataAt).arg
                 /\ cres.pos = read_sb_dynamic(cstream, DataAt).pos
        /\ (cres.ok /\ cstream[cin.n + 1] = 0) => cres.val[2] = None
        /\ (cres.ok /\ cstream[cin.n + 1] = 1
            /\ SubSeq(cstream, cin.n + 2, cin.n + 5) = <<0, 0, 0, 42>>)
              => cres.val[2] = Some(42)
        /\ (cres.ok /\ cstream[cin.n + 1] = 255
            /\ SubSeq(cstream, cin.n + 2, cin.n + 5) = <<255, 255, 255, 255>>)
              => cres.val[2] = Some(0 - 1)

\* the flag 0xFE, every bit set but the lowest: no version, and the Dynamic
\* is the byte behind the flag although four more bytes follow
C13_Witness ==
    /\ cphase = "read" /\ cin.kind = "vjson"
    /\ cstream[cin.n + 1] = 254
    /\ Len(cstream) >= cin.n + 6
    /\ cres.ok /\ cres.val[2] = None /\ cres.val[3] = Nil /\ cres.pos = cin.n + 2

\* the parts write_sb_vjson / write_sb_sbvj01 has to write for the document
PartsOf(doc, env) ==
    {"name", "flag", "data"}
    \cup (IF doc[2] # None THEN {"version"} ELSE {})
    \cup (IF env THEN {"magic"} ELSE {})

\* C14 as stated: write_sb_vjson and write_sb_sbvj01 return the error when
\* the write of the name, the flag, the version or the data fails, and Ok
\* only when every part was written.
C14_WriteErrorsPropagate ==
    (cphase = "written" /\ cin.kind = "document") =>
        (cres.ok <=> (cin.fails \cap PartsOf(cin.v, cin.env) = {}))

\* -(u >> 1) - 1 when u is odd, u >> 1 when u is even
Unzigzag(u) == IF Low1(u) # 0 THEN Dec64(Neg64(Shr(u, 1))) ELSE Shr(u, 1)

\* C15 as stated: read_sb_vlqi of lib.rs and read_sb_signed_varint of sbon.rs
\* both map the unsigned value u to -(u>>1)-1 when u is odd and to u>>1 when
\* u is even, so the two return the same value for every u.  (cres is what
\* read_sb_signed_varint returned.)
C15_DecodersAgree ==
    (cphase = "read" /\ cin.kind = "vlqi") =>
        /\ read_sb_vlqu(cstream, 0).ok
        /\ read_sb_vlqi(cstream, 0).ok
        /\ read_sb_vlqi(cstream, 0).val = Unzigzag(read_sb_vlqu(cstream, 0).val)
        /\ cres.ok
        /\ cres.val = Unzigzag(read_sb_vlqu(cstream, 0).val)
        /\ cres.val = read_sb_vlqi(cstream, 0).val

\* bit k of the 64-bit word v
WordBit(v, k) == BitOf(v[4 - (k \div 16)], k % 16)

\* C16 as stated: whenever read_sb_vlqu returns Ok(x), x is the base-128
\* value of the bytes it consumed: data bit k of the bytes is bit k of x, and
\* a varuint with a data bit at 2^64 or above is rejected, not returned
\* wrapped.
C16_NoSilentWrap ==
    (cphase = "read" /\ cin.kind \in {"vlqu", "raw"} /\ cres.ok) =>
        /\ \A k \in 0 .. (7 * cres.pos - 1) :
              BitOf(cstream[cres.pos - (k \div 7)] % 128, k % 7)
                 = (IF k < W THEN WordBit(cres.val, k) ELSE 0)
        /\ \A k \in (7 * cres.pos) .. (W - 1) : WordBit(cres.val, k) = 0

====
